---- MODULE Spec2Model ----
(***************************************************************************)
(* Model of the ComfyUI node "Load Image from Dir (bm)"                    *)
(* (src/ComfyUI-BM/nodes/load_image_from_dir_bm.py, class                  *)
(* LoadImageFromDirBM).                                                    *)
(*                                                                         *)
(* Strings are sequences of one-character strings, so that split, strip,   *)
(* lower, endswith, basename and the natural sort key are computed the way *)
(* the Python code computes them.  The filesystem is a snapshot: a set of  *)
(* directory children with their kind, stat data and image content.        *)
(***************************************************************************)
EXTENDS Integers, Sequences, FiniteSets, TLC

VARIABLES
    fs,            \* the filesystem snapshot: a set of directory children
    directory,     \* input: the semicolon-separated directory string
    file_number,   \* input: the index asked for
    sort_by,       \* input: the sort mode
    listings,      \* what os.listdir returned, one listing per scanned directory
    directories,   \* local of load_image (line 89)
    image_files,   \* local of load_image before sorting (lines 90-96)
    sorted_files,  \* local of load_image after line 98 (<<>> if not reached)
    selection,     \* locals index and image_path of lines 104-105, once reached
    outcome,       \* how the invocation ended: "none", "returned" or the error
    result         \* the returned tuple, or NoResult

vars == <<fs, directory, file_number, sort_by, listings, directories,
          image_files, sorted_files, selection, outcome, result>>

----------------------------------------------------------------------------
(* Bounds of the model. *)

\* at most this many children in the filesystem snapshot
MaxFiles == 3
\* file_number is drawn from -1 .. MaxFileNumber
MaxFileNumber == 2
\* the images of MaskSpec are up to MaxSide pixels high and wide
MaxSide == 2

----------------------------------------------------------------------------
(* Characters and strings. *)

UpperCase == <<"A","B","C","D","E","F","G","H","I","J","K","L","M",
               "N","O","P","Q","R","S","T","U","V","W","X","Y","Z">>
LowerCase == <<"a","b","c","d","e","f","g","h","i","j","k","l","m",
               "n","o","p","q","r","s","t","u","v","w","x","y","z">>
DecimalDigits == <<"0","1","2","3","4","5","6","7","8","9">>

\* "SUP2" stands for the one character U+00B2 (superscript two): str.isdigit()
\* is true of it, the regex \d does not match it and int() rejects it.
OtherDigits == {"SUP2"}

\* The characters of the model in code point order (Python compares str by
\* code point).
CodePointOrder ==
    <<" ", ".", "/">> \o DecimalDigits \o <<";">> \o UpperCase \o <<"_">>
      \o LowerCase \o <<"SUP2">>

IndexOf(seq, c) == CHOOSE i \in 1..Len(seq) : seq[i] = c
Contains(seq, c) == \E i \in 1..Len(seq) : seq[i] = c
Range(seq) == {seq[i] : i \in 1..Len(seq)}

\* a sequence given element by element, computed once
Tuple(f, n) == SubSeq(f, 1, n)

Chars == Range(CodePointOrder)
Ord == [c \in Chars |-> IndexOf(CodePointOrder, c)]

\* the regex class \d
DecimalChars == Range(DecimalDigits)
IsDecimal(c) == c \in DecimalChars
\* one character of str.isdigit()
IsDigitChar(c) == IsDecimal(c) \/ c \in OtherDigits
DigitVal(c) == Ord[c] - Ord["0"]

\* str.lower() on one character, then on a string
LowerChar ==
    [c \in Chars |->
        IF Contains(UpperCase, c) THEN LowerCase[IndexOf(UpperCase, c)] ELSE c]
Lower(s) == Tuple([i \in 1..Len(s) |-> LowerChar[s[i]]], Len(s))

\* str.isdigit(): non-empty and every character a digit
IsDigit(s) == Len(s) > 0 /\ \A i \in 1..Len(s) : IsDigitChar(s[i])

\* str.endswith(suffix) and with a tuple of suffixes
EndsWith(s, suffix) ==
    /\ Len(suffix) <= Len(s)
    /\ SubSeq(s, Len(s) - Len(suffix) + 1, Len(s)) = suffix
EndsWithAny(s, suffixes) == \E i \in 1..Len(suffixes) : EndsWith(s, suffixes[i])

\* str < str and str == str as Python compares them
RECURSIVE StrLess(_, _)
StrLess(a, b) ==
    IF b = <<>> THEN FALSE
    ELSE IF a = <<>> THEN TRUE
    ELSE IF a[1] # b[1] THEN Ord[a[1]] < Ord[b[1]]
    ELSE StrLess(Tail(a), Tail(b))

\* str.strip() for the space character
RECURSIVE LStrip(_)
LStrip(s) == IF s # <<>> /\ s[1] = " " THEN LStrip(Tail(s)) ELSE s
RECURSIVE RStrip(_)
RStrip(s) ==
    IF s # <<>> /\ s[Len(s)] = " " THEN RStrip(SubSeq(s, 1, Len(s) - 1)) ELSE s
Strip(s) == RStrip(LStrip(s))

\* str.split(sep) for a one-character separator: always at least one piece
RECURSIVE SplitAcc(_, _, _)
SplitAcc(s, sep, cur) ==
    IF s = <<>> THEN <<cur>>
    ELSE IF s[1] = sep THEN <<cur>> \o SplitAcc(Tail(s), sep, <<>>)
    ELSE SplitAcc(Tail(s), sep, Append(cur, s[1]))
Split(s, sep) == SplitAcc(s, sep, <<>>)

\* int(text) for a string of decimal digits
RECURSIVE IntOfAcc(_, _)
IntOfAcc(s, acc) ==
    IF s = <<>> THEN acc ELSE IntOfAcc(Tail(s), 10 * acc + DigitVal(s[1]))

----------------------------------------------------------------------------
(* Paths. *)

\* the last position of character c in s, 0 if none
LastIndexOf(s, c) ==
    IF Contains(s, c)
    THEN CHOOSE i \in 1..Len(s) : s[i] = c /\ \A j \in (i+1)..Len(s) : s[j] # c
    ELSE 0

\* os.path.join(a, b) for a relative b
Join(a, b) ==
    IF a = <<>> \/ a[Len(a)] = "/" THEN a \o b ELSE a \o <<"/">> \o b

\* os.path.basename(p)
Basename(p) == SubSeq(p, LastIndexOf(p, "/") + 1, Len(p))

\* os.path.splitext(name)[0]: cut at the last dot, unless only dots precede it
SplitExtRoot(name) ==
    LET dot == LastIndexOf(name, ".")
    IN  IF dot > 0 /\ \E j \in 1..(dot - 1) : name[j] # "."
        THEN SubSeq(name, 1, dot - 1)
        ELSE name

----------------------------------------------------------------------------
(* natural_sort_key (lines 73-75). *)

\* re.split(r'(\d+)', s): the runs of s, text and digit runs alternating,
\* starting and ending with a (possibly empty) text run
RECURSIVE ReSplitAcc(_, _, _)
ReSplitAcc(s, cur, inDigits) ==
    IF s = <<>> THEN (IF inDigits THEN <<cur, <<>>>> ELSE <<cur>>)
    ELSE IF IsDecimal(s[1]) = inDigits
         THEN ReSplitAcc(Tail(s), Append(cur, s[1]), inDigits)
         ELSE <<cur>> \o ReSplitAcc(Tail(s), <<s[1]>>, ~inDigits)
ReSplitDigits(s) == ReSplitAcc(s, <<>>, FALSE)

\* A faulty KeyElement: digit runs stay text
KeyElement_Text(text) == [kind |-> "str", n |-> 0, s |-> Lower(text)]

\* int(text) if text.isdigit() else text.lower()
\* int() raises ValueError on a digit character that is not a decimal digit
KeyElement(text) ==
    IF IsDigit(text)
    THEN IF \A i \in 1..Len(text) : IsDecimal(text[i])
         THEN [kind |-> "int", n |-> IntOfAcc(text, 0), s |-> <<>>]
         ELSE [kind |-> "ValueError", n |-> 0, s |-> text]
    ELSE [kind |-> "str", n |-> 0, s |-> Lower(text)]

natural_sort_key(s) ==
    LET runs == ReSplitDigits(Basename(s))
    IN  Tuple([i \in 1..Len(runs) |-> KeyElement(runs[i])], Len(runs))

\* the key holds an element int() raised on
KeyRaised(key) == \E i \in 1..Len(key) : key[i].kind = "ValueError"

\* one element < another, both of the same type
ElemLess(a, b) == IF a.kind = "int" THEN a.n < b.n ELSE StrLess(a.s, b.s)

\* Python's list < list: the first unequal pair decides, else the shorter list
RECURSIVE KeyLess(_, _)
KeyLess(k1, k2) ==
    IF k2 = <<>> THEN FALSE
    ELSE IF k1 = <<>> THEN TRUE
    ELSE IF k1[1] # k2[1] THEN ElemLess(k1[1], k2[1])
    ELSE KeyLess(Tail(k1), Tail(k2))

\* comparing the two lists raises TypeError: the first unequal pair is an int
\* and a str
RECURSIVE KeyCompareRaises(_, _)
KeyCompareRaises(k1, k2) ==
    IF k1 = <<>> \/ k2 = <<>> THEN FALSE
    ELSE IF k1[1] # k2[1] THEN k1[1].kind # k2[1].kind
    ELSE KeyCompareRaises(Tail(k1), Tail(k2))

----------------------------------------------------------------------------
(* sorted() (used at lines 79-85). *)

\* keys are numbers (stat modes) or lists (natural sort key)
Less(numeric, a, b) == IF numeric THEN a < b ELSE KeyLess(a, b)

Reverse(seq) == Tuple([i \in 1..Len(seq) |-> seq[Len(seq) + 1 - i]], Len(seq))

\* insert x behind every item that is not greater than it
RECURSIVE InsertStable(_, _, _)
InsertStable(done, x, numeric) ==
    IF done = <<>> THEN <<x>>
    ELSE IF Less(numeric, x.k, done[Len(done)].k)
         THEN Append(InsertStable(SubSeq(done, 1, Len(done) - 1), x, numeric),
                     done[Len(done)])
         ELSE Append(done, x)

RECURSIVE StableSortAcc(_, _, _)
StableSortAcc(todo, done, numeric) ==
    IF todo = <<>> THEN done
    ELSE StableSortAcc(Tail(todo), InsertStable(done, todo[1], numeric), numeric)

\* A faulty Sorted: reverse=True as an ascending sort reversed afterwards
Sorted_ReverseAfter(files, keys, numeric, reverse) ==
    LET items  == Tuple([i \in 1..Len(files) |-> [f |-> files[i], k |-> keys[i]]],
                        Len(files))
        sorted == StableSortAcc(items, <<>>, numeric)
        after  == IF reverse THEN Reverse(sorted) ELSE sorted
    IN  Tuple([i \in 1..Len(after) |-> after[i].f], Len(after))

\* sorted(files, key=..., reverse=...): keys[i] is the key of files[i]; the
\* sort is stable, and with reverse=True the list is reversed, sorted and
\* reversed again, which keeps equal keys in their original order
Sorted(files, keys, numeric, reverse) ==
    LET items  == Tuple([i \in 1..Len(files) |-> [f |-> files[i], k |-> keys[i]]],
                        Len(files))
        before == IF reverse THEN Reverse(items) ELSE items
        sorted == StableSortAcc(before, <<>>, numeric)
        after  == IF reverse THEN Reverse(sorted) ELSE sorted
    IN  Tuple([i \in 1..Len(after) |-> after[i].f], Len(after))

----------------------------------------------------------------------------
(* The filesystem and the image decoder, as load_image sees them. *)

\* A child of a directory: [dir, name, kind, mtime, size, decodable, img].
\*   kind      "file", "dir" (a subdirectory) or "broken" (a dangling symlink)
\*   decodable whether PIL can decode the file's content
\*   img       the decoded image: [bands, orientation, height, width, alpha],
\*             alpha the rows of alpha bytes (<<>> without an alpha band)
Path(f) == Join(f.dir, f.name)

NoImage == [bands |-> <<>>, orientation |-> 1, height |-> 0, width |-> 0, alpha |-> <<>>]

\* directories that exist whatever the snapshot holds; one cannot be listed
TopDirs == {<<"A">>, <<"B">>, <<"U">>}
UnreadableDirs == {<<"U">>}

\* os.path.isdir(p)
IsDir(fsys, p) ==
    \/ p \in TopDirs
    \/ \E f \in fsys : f.kind = "dir" /\ Path(f) = p

\* the child a path names
Lookup(fsys, p) == CHOOSE f \in fsys : Path(f) = p

\* os.stat follows symlinks: it fails on a dangling one
StatRaises(fsys, p) == Lookup(fsys, p).kind = "broken"
getmtime(fsys, p) == Lookup(fsys, p).mtime
getsize(fsys, p) == Lookup(fsys, p).size

\* os.listdir(d): the names of d's children, in any order
ChildNames(fsys, d) == {f.name : f \in {g \in fsys : g.dir = d}}
ListDirOrders(fsys, d) ==
    LET names == ChildNames(fsys, d)
        n     == Cardinality(names)
    IN  {l \in [1..n -> names] : \A i, j \in 1..n : l[i] = l[j] => i = j}

\* Image.open(p) followed by the decode: the error it raises, or "none"
OpenRaises(fsys, p) ==
    LET f == Lookup(fsys, p)
    IN  IF f.kind = "dir" THEN "open:IsADirectoryError"
        ELSE IF f.kind = "broken" THEN "open:FileNotFoundError"
        ELSE IF ~f.decodable THEN "open:UnidentifiedImageError"
        ELSE "none"

\* ImageOps.exif_transpose: orientation 6 is a quarter turn clockwise
\* (Image.ROTATE_270), which swaps height and width; orientation 1 is no change
ExifTranspose(img) ==
    IF img.orientation = 6
    THEN [bands |-> img.bands, orientation |-> 1,
          height |-> img.width, width |-> img.height,
          alpha |-> IF img.alpha = <<>> THEN <<>>
                    ELSE [r \in 1..img.width |->
                            [c \in 1..img.height |-> img.alpha[img.height + 1 - c][r]]]]
    ELSE img

----------------------------------------------------------------------------
(* float32 arithmetic of lines 117-118.  A float32 in [0, 1] is written as *)
(* [m, k], the number m / 2^k.                                             *)

Pow2(n) == 2 ^ n

\* float32(a) / float32(d), rounded to nearest even, for integers 0 <= a <= d:
\* long division down to a 24 bit quotient, then the rounding
RECURSIVE F32DivAcc(_, _, _, _)
F32DivAcc(q, r, d, k) ==
    IF q >= Pow2(23)
    THEN [m |-> IF 2 * r > d \/ (2 * r = d /\ q % 2 = 1) THEN q + 1 ELSE q, k |-> k]
    ELSE F32DivAcc(2 * q + ((2 * r) \div d), (2 * r) % d, d, k + 1)
F32Div(a, d) == IF a = 0 THEN [m |-> 0, k |-> 23] ELSE F32DivAcc(a \div d, a % d, d, 0)

\* float32(1.0) - x, rounded to nearest even, in units of 2^-24: x <= 1/2
\* makes the difference at least 1/2, where float32 steps by 2^-24, and
\* x > 1/2 has k = 24, so that the difference is exact
F32OneMinus(x) ==
    LET y    == (Pow2(x.k - 1) - x.m) + Pow2(x.k - 1)
        s    == x.k - 24
        q    == y \div Pow2(s)
        rem  == y % Pow2(s)
        half == Pow2(s - 1)
    IN  IF x.k = 23 THEN 2 * y
        ELSE IF s = 0 THEN y
        ELSE IF rem > half \/ (rem = half /\ q % 2 = 1) THEN q + 1
        ELSE q

\* the value 1.0 in units of 2^-24
F32One == Pow2(24)

\* A faulty MaskValue: the alpha byte is divided by 256
MaskValue_By256(a) == F32OneMinus(F32Div(a, 256))

\* 1.0 - alpha / 255.0 in float32 for each alpha byte, computed once
AlphaBytes == 0..255
F32Mask == [a \in AlphaBytes |-> F32OneMinus(F32Div(a, 255))]

\* one pixel of the mask from its alpha byte (lines 117-118)
MaskValue(a) == F32Mask[a]

----------------------------------------------------------------------------
(* sort_files (lines 77-86). *)

SortModes == {"Filename", "Date (Newest First)", "Date (Oldest First)", "FileSize"}

\* A faulty SortKey: FileSize sorts by modification time
SortKey_SizeByTime(fsys, p, sort_method) ==
    CASE sort_method = "Filename" -> natural_sort_key(p)
      [] sort_method \in SortModes -> getmtime(fsys, p)
      [] OTHER -> 0

\* the key of one file under a sort method
SortKey(fsys, p, sort_method) ==
    CASE sort_method = "Filename" -> natural_sort_key(p)
      [] sort_method = "Date (Newest First)" -> getmtime(fsys, p)
      [] sort_method = "Date (Oldest First)" -> getmtime(fsys, p)
      [] sort_method = "FileSize" -> getsize(fsys, p)
      [] OTHER -> 0

\* sorted() calls the key function once for each file
SortKeys(fsys, files, sort_method) ==
    Tuple([i \in 1..Len(files) |-> SortKey(fsys, files[i], sort_method)], Len(files))

\* A faulty SortRaises: a failing stat goes unnoticed
SortRaises_NoStat(fsys, files, keys, sort_method) ==
    IF sort_method = "Filename" /\ \E i \in 1..Len(files) : KeyRaised(keys[i])
    THEN "key:ValueError" ELSE "none"

\* the error computing the keys or comparing them raises, or "none"
SortRaises(fsys, files, keys, sort_method) ==
    LET idx == 1..Len(files)
    IN  IF sort_method = "Filename"
        THEN IF \E i \in idx : KeyRaised(keys[i]) THEN "key:ValueError"
             ELSE IF \E i, j \in idx : KeyCompareRaises(keys[i], keys[j])
                  THEN "compare:TypeError"
             ELSE "none"
        ELSE IF sort_method \in SortModes /\ \E i \in idx : StatRaises(fsys, files[i])
        THEN "stat:FileNotFoundError"
        ELSE "none"

\* A faulty SortWithKeys: the files are left as the scan found them
SortWithKeys_Unsorted(files, keys, sort_method) == files

\* sort_files given the keys of the files
SortWithKeys(files, keys, sort_method) ==
    CASE sort_method = "Filename" -> Sorted(files, keys, FALSE, FALSE)
      [] sort_method = "Date (Newest First)" -> Sorted(files, keys, TRUE, TRUE)
      [] sort_method = "Date (Oldest First)" -> Sorted(files, keys, TRUE, FALSE)
      [] sort_method = "FileSize" -> Sorted(files, keys, TRUE, FALSE)
      [] OTHER -> files

sort_files(fsys, files, sort_method) ==
    SortWithKeys(files, SortKeys(fsys, files, sort_method), sort_method)

----------------------------------------------------------------------------
(* load_image (lines 88-133), step by step. *)

valid_extensions ==
    << <<".","p","n","g">>, <<".","j","p","g">>, <<".","j","p","e","g">>,
       <<".","w","e","b","p">>, <<".","b","m","p">>, <<".","t","i","f","f">> >>

\* side of the default mask (line 113)
DefaultMaskSize == 64

\* A faulty ParseDirectories: the entries are not stripped
ParseDirectories_NoStrip(fsys, d) ==
    LET parts == Split(d, ";")
        IsValid(part) == IsDir(fsys, part)
    IN  SelectSeq(parts, IsValid)

\* line 89: the stripped entries that are existing directories, in order
RECURSIVE KeepDirs(_, _)
KeepDirs(fsys, parts) ==
    IF parts = <<>> THEN <<>>
    ELSE (IF IsDir(fsys, Strip(parts[1])) THEN <<Strip(parts[1])>> ELSE <<>>)
           \o KeepDirs(fsys, Tail(parts))
ParseDirectories(fsys, d) == KeepDirs(fsys, Split(d, ";"))

\* A faulty KeepImages: the extension is compared with regard to case
RECURSIVE KeepImages_CaseSensitive(_, _)
KeepImages_CaseSensitive(dir_path, listing) ==
    IF listing = <<>> THEN <<>>
    ELSE (IF EndsWithAny(listing[1], valid_extensions)
          THEN <<Join(dir_path, listing[1])>> ELSE <<>>)
           \o KeepImages_CaseSensitive(dir_path, Tail(listing))

\* lines 94-96 for one directory and the listing os.listdir gave
RECURSIVE KeepImages(_, _)
KeepImages(dir_path, listing) ==
    IF listing = <<>> THEN <<>>
    ELSE (IF EndsWithAny(Lower(listing[1]), valid_extensions)
          THEN <<Join(dir_path, listing[1])>> ELSE <<>>)
           \o KeepImages(dir_path, Tail(listing))

\* lines 93-96: the loop stops at a directory os.listdir cannot read
RECURSIVE ScanFiles(_, _)
ScanFiles(dirs, ls) ==
    IF dirs = <<>> \/ dirs[1] \in UnreadableDirs THEN <<>>
    ELSE KeepImages(dirs[1], ls[1]) \o ScanFiles(Tail(dirs), Tail(ls))

ScanRaises(dirs) ==
    IF \E i \in 1..Len(dirs) : dirs[i] \in UnreadableDirs
    THEN "listdir:PermissionError" ELSE "none"

\* what os.listdir may return over one invocation: one listing for each
\* directory scanned, each in an order of its own
RECURSIVE AllListings(_, _)
AllListings(fsys, dirs) ==
    IF dirs = <<>> \/ dirs[1] \in UnreadableDirs THEN {<<>>}
    ELSE {<<l>> \o rest : l \in ListDirOrders(fsys, dirs[1]),
                          rest \in AllListings(fsys, Tail(dirs))}

Min(a, b) == IF a < b THEN a ELSE b
Max(a, b) == IF a > b THEN a ELSE b

\* A faulty ClampIndex: the index wraps around
ClampIndex_Wrap(n, file_count) == n % file_count

\* line 104
ClampIndex(n, file_count) == Max(0, Min(n, file_count - 1))

\* lines 112-118 and 128: the mask of the (transposed) image, as a tensor
\* [shape, zeros, rows]: zeros marks torch.zeros, whose elements are all 0
\* and are not stored; rows holds the elements otherwise, in units of 2^-24
MaskOf(img) ==
    IF Contains(img.bands, "A")
    THEN [shape |-> <<1, img.height, img.width>>, zeros |-> FALSE,
          rows  |-> [r \in 1..img.height |->
                       [c \in 1..img.width |-> MaskValue(img.alpha[r][c])]]]
    ELSE [shape |-> <<1, DefaultMaskSize, DefaultMaskSize>>, zeros |-> TRUE,
          rows  |-> <<>>]

\* an element of a mask tensor, in units of 2^-24
MaskAt(mask, r, c) == IF mask.zeros THEN 0 ELSE mask.rows[r][c]

\* lines 119-124: the image tensor, of which the model keeps the shape
ImageTensorOf(img) == [shape |-> <<1, img.height, img.width, 3>>]

NoResult == [none |-> TRUE]
NoSelection == [reached |-> FALSE, index |-> 0, image_path |-> <<>>]

\* lines 105-133 for the selected path
ResultOf(fsys, image_path, file_count) ==
    LET filename == Basename(image_path)
        image    == ExifTranspose(Lookup(fsys, image_path).img)
    IN  [image           |-> ImageTensorOf(image),
         mask            |-> MaskOf(image),
         filepath        |-> image_path,
         filename        |-> filename,
         filename_no_ext |-> SplitExtRoot(filename),
         file_count      |-> file_count]

\* One invocation of load_image on a snapshot, given what os.listdir returns:
\* the locals it computed, how it ended and what it returned.
Invoke(fsys, d, n, sort_method, ls) ==
    LET dirs    == ParseDirectories(fsys, d)
        files   == ScanFiles(dirs, ls)
        scanErr == ScanRaises(dirs)
        keys    == SortKeys(fsys, files, sort_method)
        sortErr == SortRaises(fsys, files, keys, sort_method)
        sorted  == SortWithKeys(files, keys, sort_method)
        count   == Len(sorted)
        index   == ClampIndex(n, count)
        path    == sorted[index + 1]
        base    == [directories |-> dirs, image_files |-> files,
                    sorted_files |-> <<>>, selection |-> NoSelection,
                    outcome |-> "none", result |-> NoResult]
        chosen  == [base EXCEPT !.sorted_files = sorted,
                                !.selection = [reached |-> TRUE, index |-> index,
                                               image_path |-> path]]
    IN  IF scanErr # "none" THEN [base EXCEPT !.outcome = scanErr]
        ELSE IF sortErr # "none" THEN [base EXCEPT !.outcome = sortErr]
        ELSE IF count = 0
        THEN [base EXCEPT !.sorted_files = sorted, !.outcome = "NoCandidateFiles"]
        ELSE IF OpenRaises(fsys, path) # "none"
        THEN [chosen EXCEPT !.outcome = OpenRaises(fsys, path)]
        ELSE [chosen EXCEPT !.outcome = "returned",
                            !.result = ResultOf(fsys, path, count)]

----------------------------------------------------------------------------
(* The snapshots and inputs of the model. *)

RGB  == [bands |-> <<"R","G","B">>, orientation |-> 1, height |-> 2, width |-> 3,
         alpha |-> <<>>]
RGBA == [bands |-> <<"R","G","B","A">>, orientation |-> 1, height |-> 1, width |-> 3,
         alpha |-> << <<0, 128, 255>> >>]
\* grey with alpha, stored on its side (orientation 6)
LA   == [bands |-> <<"L","A">>, orientation |-> 6, height |-> 2, width |-> 1,
         alpha |-> << <<255>>, <<1>> >>]
\* palette image: transparency, if any, is not a band
PAL  == [bands |-> <<"P">>, orientation |-> 1, height |-> 1, width |-> 1,
         alpha |-> <<>>]

Child(d, name, kind, mtime, size, decodable, img) ==
    [dir |-> d, name |-> name, kind |-> kind, mtime |-> mtime, size |-> size,
     decodable |-> decodable, img |-> img]

DirA == <<"A">>
DirB == <<"B">>

\* The children a snapshot is drawn from.  Sizes and modification times tie
\* within directory A and across A and B; FILE2.JPG and file2.jpg have equal
\* natural sort keys, and file2.jpg is in both directories; file1.jpg is not
\* an image despite its name; sub.png is a subdirectory; SUP2 1.bmp starts
\* with a superscript two; broken.png is a dangling symlink.
FilePool ==
    { Child(DirA, <<"f","i","l","e","2",".","j","p","g">>, "file", 20, 500, TRUE, RGB),
      Child(DirA, <<"f","i","l","e","1","0",".","j","p","g">>, "file", 10, 500, TRUE, RGBA),
      Child(DirA, <<"F","I","L","E","2",".","J","P","G">>, "file", 20, 700, TRUE, LA),
      Child(DirA, <<"f","i","l","e","1",".","j","p","g">>, "file", 30, 600, FALSE, NoImage),
      Child(DirA, <<"n","o","t","e","s",".","t","x","t">>, "file", 40, 100, FALSE, NoImage),
      Child(DirA, <<"s","u","b",".","p","n","g">>, "dir", 20, 500, FALSE, NoImage),
      Child(DirA, <<"SUP2","1",".","b","m","p">>, "file", 50, 800, TRUE, RGB),
      Child(DirB, <<"f","i","l","e","2",".","j","p","g">>, "file", 10, 500, TRUE, PAL),
      Child(DirB, <<"b","r","o","k","e","n",".","p","n","g">>, "broken", 0, 0, FALSE, NoImage) }

Snapshots == {S \in SUBSET FilePool : Cardinality(S) <= MaxFiles}

\* "", "A", "A;B", " B ; A", "B;B", "/n;B" (no directory /n), "B;U"
DirectoryStrings ==
    { <<>>, <<"A">>, <<"A",";","B">>, <<" ","B"," ",";"," ","A">>,
      <<"B",";","B">>, <<"/","n",";","B">>, <<"B",";","U">> }

FileNumbers == -1 .. MaxFileNumber

----------------------------------------------------------------------------
(* The state machine: one invocation of the node on a snapshot. *)

Init ==
    /\ fs \in Snapshots
    /\ directory \in DirectoryStrings
    /\ file_number \in FileNumbers
    /\ sort_by \in SortModes
    /\ listings = <<>>
    /\ directories = <<>>
    /\ image_files = <<>>
    /\ sorted_files = <<>>
    /\ selection = NoSelection
    /\ outcome = "none"
    /\ result = NoResult

\* load_image(directory, file_number, sort_by), lines 88-133
LoadImage ==
    /\ outcome = "none"
    /\ \E ls \in AllListings(fs, ParseDirectories(fs, directory)) :
         \E run \in {Invoke(fs, directory, file_number, sort_by, ls)} :
             /\ listings' = ls
             /\ directories' = run.directories
             /\ image_files' = run.image_files
             /\ sorted_files' = run.sorted_files
             /\ selection' = run.selection
             /\ outcome' = run.outcome
             /\ result' = run.result
    /\ UNCHANGED <<fs, directory, file_number, sort_by>>

Next == LoadImage

Spec == Init /\ [][Next]_vars

\* The images of MaskSpec: with an alpha band, every alpha byte at the first
\* pixel, upright or stored on its side; the alpha row 0, 128, 255; and
\* without an alpha band, in every size.
AlphaImages ==
    { [bands |-> <<"R","G","B","A">>, orientation |-> o, height |-> h, width |-> w,
       alpha |-> Tuple([r \in 1..h |->
                    Tuple([c \in 1..w |-> (a + 85 * (c - 1) + 51 * (r - 1)) % 256], w)], h)] :
        a \in 0..255, h \in 1..MaxSide, w \in 1..MaxSide, o \in {1, 6} }
PlainImages ==
    { [bands |-> b, orientation |-> o, height |-> h, width |-> w, alpha |-> <<>>] :
        b \in {<<"R","G","B">>, <<"L">>, <<"P">>},
        h \in 1..MaxSide, w \in 1..MaxSide, o \in {1, 6} }
MaskImages == AlphaImages \cup PlainImages \cup {RGBA}

MaskFileName == <<"a",".","p","n","g">>

\* one image in directory A, selected by every file_number
InitMask ==
    /\ \E img \in MaskImages :
          fs = {Child(DirA, MaskFileName, "file", 10, 500, TRUE, img)}
    /\ directory = DirA
    /\ file_number \in {-1, 0, MaxFileNumber}
    /\ sort_by = "Filename"
    /\ listings = <<>>
    /\ directories = <<>>
    /\ image_files = <<>>
    /\ sorted_files = <<>>
    /\ selection = NoSelection
    /\ outcome = "none"
    /\ result = NoResult

MaskSpec == InitMask /\ [][Next]_vars

----------------------------------------------------------------------------
(* What the claims speak of, stated on the inputs and the snapshot. *)

\* the entries of each directory string of the model, trimmed, left to right
TrimmedEntries ==
    [d \in DirectoryStrings |->
        LET parts == Split(d, ";")
        IN  Tuple([i \in 1..Len(parts) |-> Strip(parts[i])], Len(parts))]
Entries == TrimmedEntries[directory]
EntryDir(i) == Entries[i]
ValidEntries == {i \in 1..Len(Entries) : IsDir(fs, EntryDir(i))}

\* the extension of a bare name: from its last dot on, lower-cased
ExtensionOf(name) ==
    Lower(SubSeq(name, Len(SplitExtRoot(name)) + 1, Len(name)))
SupportedExtensions == Range(valid_extensions)

\* the bare names of the model, and those with a supported extension
Names == {f.name : f \in FilePool} \cup {MaskFileName}
SupportedNames == {name \in Names : ExtensionOf(name) \in SupportedExtensions}
SupportedChildren(d) == {f \in fs : f.dir = d /\ f.name \in SupportedNames}

\* every valid directory of the string can be listed
AllListable == \A i \in ValidEntries : EntryDir(i) \notin UnreadableDirs
\* no valid directory of the string has a child with a supported extension
NoCandidatesRemain == \A i \in ValidEntries : SupportedChildren(EntryDir(i)) = {}

Invoked == outcome # "none"
Returned == outcome = "returned"
\* line 98 was passed: the candidates were listed and sorted
SortDone == Invoked /\ outcome \notin {"listdir:PermissionError", "key:ValueError",
                                        "compare:TypeError", "stat:FileNotFoundError"}
fileCount == Len(sorted_files)

----------------------------------------------------------------------------
(* C1 *)

\* C1: whenever the sorted candidate sequence is non-empty, the file selected
\* is the one at max(0, min(file_number, fileCount - 1)): file_number itself
\* inside 0..fileCount-1, the last position above it, position 0 below 0, so
\* that 0 <= index < fileCount.
C1_ClampedSelection ==
    (SortDone /\ fileCount > 0) =>
        /\ selection.reached
        /\ 0 <= selection.index /\ selection.index < fileCount
        /\ (file_number \in 0..(fileCount - 1) => selection.index = file_number)
        /\ (file_number >= fileCount => selection.index = fileCount - 1)
        /\ (file_number < 0 => selection.index = 0)
        /\ selection.image_path = sorted_files[selection.index + 1]
        /\ (Returned => result.filepath = sorted_files[selection.index + 1])

\* an index beyond the end was clamped to the last of several files
C1_Witness ==
    /\ Returned /\ fileCount >= 2 /\ file_number >= fileCount
    /\ result.filepath = sorted_files[fileCount]
    /\ sorted_files[fileCount] # sorted_files[1]

----------------------------------------------------------------------------
(* C2 *)

\* C2 as claimed: NoCandidateFiles is raised exactly when no candidate file
\* remains after dropping the entries that are not directories and the
\* children without a supported extension, and then nothing is returned.
C2_Original ==
    Invoked => ((outcome = "NoCandidateFiles") <=> NoCandidatesRemain)

\* C2 amended: NoCandidateFiles is raised exactly when every valid directory
\* could be listed and no candidate remains; then no result is returned, and
\* the condition depends neither on file_number nor on sort_by.
C2_NoCandidateFiles ==
    Invoked =>
        /\ (outcome = "NoCandidateFiles") <=> (AllListable /\ NoCandidatesRemain)
        /\ (outcome = "NoCandidateFiles" =>
                result = NoResult /\ ~selection.reached /\ image_files = <<>>)

\* every entry of the string is invalid or without images, and the call failed
C2_Witness ==
    /\ outcome = "NoCandidateFiles"
    /\ fs # {} /\ Len(Entries) = 2 /\ ValidEntries # {}
    /\ sort_by = "FileSize" /\ file_number > 0

----------------------------------------------------------------------------
(* C3 *)

\* the candidates, whatever their order, and the child a path names
Candidates == UNION {SupportedChildren(EntryDir(i)) : i \in ValidEntries}
Named(p) == CHOOSE f \in fs : Path(f) = p

\* a bare name with a run that str.isdigit() accepts and int() rejects: digit
\* characters that are not decimal, between decimal digits or the name's ends
HasOddDigitRun(name) ==
    \E i \in 1..Len(name) : \E j \in i..Len(name) :
        /\ \A k \in i..j : name[k] \in OtherDigits
        /\ (i = 1 \/ IsDecimal(name[i - 1]))
        /\ (j = Len(name) \/ IsDecimal(name[j + 1]))

KeyFails == sort_by = "Filename" /\ \E f \in Candidates : HasOddDigitRun(f.name)
StatFails == sort_by # "Filename" /\ \E f \in Candidates : f.kind = "broken"

\* C3 as claimed: an invocation returns the tuple or raises NoCandidateFiles,
\* and ends in no other error.
C3_Original == outcome \in {"none", "returned", "NoCandidateFiles"}

\* C3 amended: NoCandidateFiles is the only error load_image raises itself.
\* An invocation ends in exactly one of: the complete 6-tuple returned;
\* NoCandidateFiles; or an error passed on from a library call, namely from
\* os.listdir on a directory that cannot be read, from int() in the natural
\* sort key of a name with a run of non-decimal digit characters, from the
\* stat of a dangling candidate under the three stat modes, or from opening
\* the selected path when it is a directory, dangling or not an image.  No
\* partial result exists, and invalid directory entries, out-of-range
\* indices and images without alpha never cause a failure.
C3_Outcomes ==
    Invoked =>
        /\ (outcome = "listdir:PermissionError") <=> ~AllListable
        /\ (outcome = "key:ValueError") <=> (AllListable /\ KeyFails)
        /\ (outcome = "stat:FileNotFoundError") <=> (AllListable /\ StatFails)
        /\ outcome # "compare:TypeError"
        /\ (outcome = "NoCandidateFiles") <=> (AllListable /\ NoCandidatesRemain)
        /\ (AllListable /\ ~KeyFails /\ ~StatFails /\ ~NoCandidatesRemain) =>
              /\ selection.reached
              /\ LET f == Named(selection.image_path)
                 IN  outcome = (IF f.kind = "dir" THEN "open:IsADirectoryError"
                                ELSE IF f.kind = "broken" THEN "open:FileNotFoundError"
                                ELSE IF ~f.decodable THEN "open:UnidentifiedImageError"
                                ELSE "returned")
        /\ IF Returned
           THEN DOMAIN result = {"image", "mask", "filepath", "filename",
                                 "filename_no_ext", "file_count"}
           ELSE result = NoResult

\* an invalid entry, an index out of range and an image without alpha, and
\* the call returned
C3_Witness ==
    /\ Returned
    /\ \E i \in 1..Len(Entries) : i \notin ValidEntries
    /\ file_number >= fileCount
    /\ ~Contains(Named(result.filepath).img.bands, "A")

----------------------------------------------------------------------------
(* C4 *)

NameAt(i) == Basename(sorted_files[i])
PositionsOf(name) == {i \in 1..fileCount : NameAt(i) = name}
Precedes(n1, n2) == \A i \in PositionsOf(n1) : \A j \in PositionsOf(n2) : i < j

File1  == <<"f","i","l","e","1",".","j","p","g">>
File2  == <<"f","i","l","e","2",".","j","p","g">>
File10 == <<"f","i","l","e","1","0",".","j","p","g">>
FILE2  == <<"F","I","L","E","2",".","J","P","G">>

----------------------------------------------------------------------------
(* C5 *)

\* the subsequence of seq made of the elements in set
Restrict(seq, set) == LET In(x) == x \in set IN SelectSeq(seq, In)

KeyOf(p) == SortKey(fs, p, sort_by)

\* C5: in every mode, two candidates with equal sort keys stand in the
\* sorted sequence in the order they have in the sequence the scan built.
C5_Stable ==
    SortDone =>
        \A keys \in {SortKeys(fs, image_files, sort_by)} :
            \A i, j \in 1..Len(image_files) :
                (image_files[i] # image_files[j] /\ keys[i] = keys[j]) =>
                    \A pair \in {{image_files[i], image_files[j]}} :
                        Restrict(sorted_files, pair) = Restrict(image_files, pair)

\* newest first: two files of one modification time kept their order, behind
\* a newer file that the scan had found last
C5_Witness ==
    /\ Returned /\ sort_by = "Date (Newest First)" /\ fileCount = 3
    /\ KeyOf(image_files[1]) = KeyOf(image_files[2])
    /\ KeyOf(image_files[3]) > KeyOf(image_files[1])
    /\ Basename(image_files[1]) = FILE2 /\ Basename(image_files[2]) = File2
    /\ sorted_files = <<image_files[3], image_files[1], image_files[2]>>

----------------------------------------------------------------------------
(* C10 *)

Count(seq, x) == Cardinality({i \in 1..Len(seq) : seq[i] = x})
MTime(p) == Named(p).mtime
Size(p) == Named(p).size

\* C10: under the stat modes the output is a permutation of the candidates,
\* newest first by modification time non-increasing, oldest first by it
\* non-decreasing, by size non-decreasing; file_number 0 selects a file of
\* maximal time, minimal time, minimal size.
C10_StatOrder ==
    (SortDone /\ sort_by # "Filename") =>
        /\ fileCount = Len(image_files)
        /\ \A p \in Range(image_files) \cup Range(sorted_files) :
              Count(sorted_files, p) = Count(image_files, p)
        /\ \A i \in 1..(fileCount - 1) :
              CASE sort_by = "Date (Newest First)" ->
                      MTime(sorted_files[i]) >= MTime(sorted_files[i + 1])
                [] sort_by = "Date (Oldest First)" ->
                      MTime(sorted_files[i]) <= MTime(sorted_files[i + 1])
                [] sort_by = "FileSize" ->
                      Size(sorted_files[i]) <= Size(sorted_files[i + 1])
        /\ (selection.reached /\ file_number = 0) =>
              \A p \in Range(image_files) :
                  CASE sort_by = "Date (Newest First)" ->
                          MTime(selection.image_path) >= MTime(p)
                    [] sort_by = "Date (Oldest First)" ->
                          MTime(selection.image_path) <= MTime(p)
                    [] sort_by = "FileSize" ->
                          Size(selection.image_path) <= Size(p)

\* three files of three modification times, found oldest first, returned
\* newest first
C10_Witness ==
    /\ Returned /\ sort_by = "Date (Newest First)" /\ file_number = 0
    /\ fileCount = 3
    /\ MTime(image_files[1]) < MTime(image_files[2])
    /\ MTime(image_files[2]) < MTime(image_files[3])
    /\ result.filepath = image_files[3]

----------------------------------------------------------------------------
(* C6 *)

\* the valid entries of the directory string, in order
ValidDirs ==
    LET IsValid(d) == IsDir(fs, d)
    IN  SelectSeq(Tuple([i \in 1..Len(Entries) |-> EntryDir(i)], Len(Entries)), IsValid)

\* the names of a listing that carry a supported extension, as paths under d
SupportedOf(d, listing) ==
    LET Supported(name) == name \in SupportedNames
        kept == SelectSeq(listing, Supported)
    IN  Tuple([i \in 1..Len(kept) |-> d \o <<"/">> \o kept[i]], Len(kept))

RECURSIVE Concatenation(_)
Concatenation(seqs) ==
    IF seqs = <<>> THEN <<>> ELSE seqs[1] \o Concatenation(Tail(seqs))

DirOf(p) == SubSeq(p, 1, LastIndexOf(p, "/") - 1)
DString(str) == directory = str
\* the positions of the candidate sequence with a file of directory d
FoundIn(d) == {i \in 1..Len(image_files) : DirOf(image_files[i]) = d}

\* C6: the candidate sequence is the concatenation, over the trimmed entries
\* that are existing directories, left to right, of the supported children
\* of each as its listing gave them: other entries add nothing and raise
\* nothing, a directory named twice adds its files twice, and the files of
\* an earlier directory precede those of a later one.
C6_CandidateSequence ==
    Invoked =>
        /\ directories = ValidDirs
        /\ Len(listings) <= Len(directories)
        /\ \A k \in 1..Len(listings) :
              \A names \in {ChildNames(fs, directories[k])} :
                  Range(listings[k]) = names /\ Len(listings[k]) = Cardinality(names)
        /\ image_files =
              Concatenation([k \in 1..Len(listings) |->
                                SupportedOf(directories[k], listings[k])])
        /\ AllListable => Len(listings) = Len(directories)
        /\ outcome \in {"returned", "NoCandidateFiles"} => Len(sorted_files) = Len(image_files)
        \* "A;B" and " B ; A": the files of the first precede those of the second
        /\ DString(<<"A",";","B">>) =>
              \A i \in FoundIn(DirA) : \A j \in FoundIn(DirB) : i < j
        /\ DString(<<" ","B"," ",";"," ","A">>) =>
              /\ \A i \in FoundIn(DirB) : \A j \in FoundIn(DirA) : i < j
              /\ Len(image_files) = Cardinality(SupportedChildren(DirA))
                                      + Cardinality(SupportedChildren(DirB))
        \* "B;B": twice the files of B
        /\ DString(<<"B",";","B">>) =>
              Len(image_files) = 2 * Cardinality(SupportedChildren(DirB))
        \* "/n;B": B alone is scanned, and the entry /n raises nothing
        /\ DString(<<"/","n",";","B">>) =>
              /\ directories = <<DirB>>
              /\ Len(image_files) = Cardinality(SupportedChildren(DirB))
              /\ outcome # "listdir:PermissionError"

\* "A;B" with one image in each: A's file, then B's
C6_Witness ==
    /\ Returned /\ DString(<<"A",";","B">>)
    /\ Len(image_files) = 2
    /\ DirOf(image_files[1]) = DirA /\ DirOf(image_files[2]) = DirB
    /\ \E f \in fs : f.dir = DirA /\ ExtensionOf(f.name) \notin SupportedExtensions

----------------------------------------------------------------------------
(* C7 *)

\* one fixed answer of os.listdir for the directories of the string: every
\* directory lists its children in one order fixed by their names
RECURSIVE InOrder(_)
InOrder(names) ==
    IF names = {} THEN <<>>
    ELSE LET first == CHOOSE x \in names : TRUE
         IN  <<first>> \o InOrder(names \ {first})
RECURSIVE ListingsInOrder(_)
ListingsInOrder(dirs) ==
    IF dirs = <<>> \/ dirs[1] \in UnreadableDirs THEN <<>>
    ELSE <<InOrder(ChildNames(fs, dirs[1]))>> \o ListingsInOrder(Tail(dirs))
ReferenceListings == ListingsInOrder(ValidDirs)
ReferenceRun == Invoke(fs, directory, file_number, sort_by, ReferenceListings)

SameReturn(run) ==
    /\ run.outcome = "returned"
    /\ run.result.filepath = result.filepath
    /\ run.result.filename = result.filename
    /\ run.result.file_count = result.file_count

\* C7 as claimed: whatever order the directories are enumerated in, the
\* invocation returns the same filepath, filename and file count as the
\* invocation with the reference enumeration.
C7_Original == Returned => \A run \in {ReferenceRun} : SameReturn(run)

\* the natural sort key of each bare name of the model
NaturalKeys == [name \in Names |-> natural_sort_key(name)]

\* the key the sort mode gives a child
ChildKey(f) ==
    CASE sort_by = "Filename" -> NaturalKeys[f.name]
      [] sort_by = "FileSize" -> <<f.size>>
      [] OTHER -> <<f.mtime>>

\* no two candidates of one directory have equal sort keys
NoTiesInDirectory ==
    \A i \in ValidEntries : \A f, g \in SupportedChildren(EntryDir(i)) :
        f # g => ChildKey(f) # ChildKey(g)

\* C7 amended: the invocation is deterministic for a fixed snapshot whenever
\* no two candidates of the same directory have equal sort keys: it then ends
\* the same way and returns the same filepath, filename and file count
\* whatever the enumeration order; the file count is the same in any case.
C7_Deterministic ==
    Invoked =>
        \A run \in {ReferenceRun} :
            /\ Len(run.image_files) = Len(image_files)
            /\ (Returned /\ run.outcome = "returned") =>
                  run.result.file_count = result.file_count
            /\ NoTiesInDirectory =>
                  /\ run.outcome = outcome
                  /\ run.sorted_files = sorted_files
                  /\ Returned => SameReturn(run)

\* three files listed in another order than the reference, and the same return
C7_Witness ==
    /\ Returned /\ NoTiesInDirectory /\ fileCount = 3
    /\ listings # ReferenceListings
    /\ image_files # ReferenceRun.image_files
    /\ image_files # sorted_files
    /\ SameReturn(ReferenceRun)

----------------------------------------------------------------------------
(* C9 *)

\* C9 as claimed: the candidates are exactly the children of the valid
\* directories that are files with a supported extension, and the returned
\* file count is their number.
C9_CandidatesAreFiles ==
    Invoked =>
        /\ \A i \in 1..Len(image_files) :
              /\ Named(image_files[i]).kind = "file"
              /\ Basename(image_files[i]) \in SupportedNames
        /\ AllListable =>
              \A i \in ValidEntries : \A f \in SupportedChildren(EntryDir(i)) :
                  f.kind = "file" => Path(f) \in Range(image_files)
        /\ Returned =>
              result.file_count =
                  Len(Concatenation([k \in 1..Len(ValidDirs) |->
                        LET IsFile(p) == Named(p).kind = "file"
                        IN  SelectSeq(SupportedOf(ValidDirs[k], listings[k]), IsFile)]))

----------------------------------------------------------------------------
(* C8 *)

\* the image as decoded and turned upright (lines 109-110)
Selected == ExifTranspose(Named(result.filepath).img)
HasAlphaBand == \E i \in 1..Len(Selected.bands) : Selected.bands[i] = "A"

\* the whole units of 2^-24 in n/255, for 0 <= n <= 255
Units255(n) ==
    LET hi == n * Pow2(12)
    IN  (hi \div 255) * Pow2(12) + ((hi % 255) * Pow2(12)) \div 255

\* m units of 2^-24 are within one unit of 1 - a/255
NearOneMinus(m, a) == Units255(255 - a) <= m /\ m <= Units255(255 - a) + 1

MaskShapeAndEnds ==
    IF HasAlphaBand
    THEN /\ result.mask.shape = <<1, Selected.height, Selected.width>>
         /\ result.image.shape = <<1, Selected.height, Selected.width, 3>>
         /\ \A r \in 1..Selected.height : \A c \in 1..Selected.width :
               LET a == Selected.alpha[r][c]
                   m == MaskAt(result.mask, r, c)
               IN  /\ a \in 0..255
                   /\ (a = 0 => m = F32One)
                   /\ (a = 255 => m = 0)
    ELSE /\ result.mask.shape = <<1, 64, 64>>
         /\ \A r, c \in 1..64 : MaskAt(result.mask, r, c) = 0

\* C8 as claimed: without alpha the mask is [1, 64, 64] of zeros; with alpha
\* it is [1, height, width] with 1 - alpha/255 at each pixel, so that alpha 0
\* gives 1, alpha 255 gives 0 and alpha 128 gives 0.5.
C8_Original ==
    Returned =>
        /\ MaskShapeAndEnds
        /\ HasAlphaBand =>
              \A r \in 1..Selected.height : \A c \in 1..Selected.width :
                  Selected.alpha[r][c] = 128 =>
                      2 * MaskAt(result.mask, r, c) = F32One

\* C8 amended: without alpha the mask is [1, 64, 64] of zeros whatever the
\* image size; with alpha it is [1, height, width] with the float32 value of
\* 1 - alpha/255 at each pixel, within 2^-24 of it: alpha 0 gives 1, alpha
\* 255 gives 0, and alpha 128 gives 127/255, about 0.498, not 0.5.
C8_Mask ==
    Returned =>
        /\ MaskShapeAndEnds
        /\ HasAlphaBand =>
              \A r \in 1..Selected.height : \A c \in 1..Selected.width :
                  LET a == Selected.alpha[r][c]
                      m == MaskAt(result.mask, r, c)
                  IN  /\ NearOneMinus(m, a)
                      /\ (a = 128 => 2 * m < F32One /\ m = Units255(127))

\* the alpha row 0, 128, 255 gave a mask row with 1 first and 0 last
C8_Witness ==
    /\ Returned /\ HasAlphaBand
    /\ Selected.alpha = << <<0, 128, 255>> >>
    /\ result.mask.shape = <<1, 1, 3>>
    /\ MaskAt(result.mask, 1, 1) = F32One
    /\ MaskAt(result.mask, 1, 3) = 0

====
